---------------------------- MODULE Spec2Model ----------------------------
(***************************************************************************)
(* Model of egress-ip-generator/zscaler_egress_ips.py.                     *)
(*                                                                         *)
(*   SpecSum : summarize_ip_blocks, one loop iteration per step, followed  *)
(*             by the two collapse_addresses calls and the return, and a   *)
(*             second summarization of the returned list.                  *)
(*   SpecExt : the __main__ driver around fetch_zscaler_egress_ips: the    *)
(*             HTTP fetch, the section lookup, the nested traversal and    *)
(*             the two except clauses.                                     *)
(*                                                                         *)
(* Addresses are scaled down: an IPv4 address has W4 bits and an IPv6      *)
(* address W6 bits (32 and 128 in the program).  A string is modelled by   *)
(* its syntax tree: surrounding whitespace (pad) and its text, which is    *)
(* empty, junk, an address literal or <address>/<prefix>.  The netmask and *)
(* hostmask spellings of an IPv4 prefix are not modelled.                  *)
(***************************************************************************)
EXTENDS Integers, Sequences, FiniteSets, TLC

VARIABLES
    pc,        \* position of the modelled run
    st,        \* summarize_ip_blocks locals: ipv4, ipv6, the warnings printed, the exception raised
    n,         \* number of items of ip_entries consumed so far
    out,       \* the list summarize_ip_blocks returned
    again,     \* summarize_ip_blocks(out)
    againRdy,  \* summarize_ip_blocks(out with every item marked ready)
    fst,       \* the same run on the input with the not-ready records removed
    expected,  \* addresses denoted by the ready records whose address is a valid string
    dropped,   \* positions of the ready records dropped for a null, empty or unparseable address
    badStr,    \* positions of the ready records whose address is a non-empty string that does not parse
    skipped,   \* address strings of the not-ready records that denote a network
    doc,       \* the section path of the JSON document the fetch returned
    results,   \* fetch_zscaler_egress_ips: the list being built
    rowIdx,    \* index in rows of the row the outer loop takes next
    err,       \* the exception raised, with the source line that raised it
    handler,   \* what the except clause of __main__ that caught it printed
    flat       \* document-order flattening of the rows after the header read so far

sumVars == <<st, n, out, again, againRdy, fst, expected, dropped, badStr, skipped>>
extVars == <<doc, results, rowIdx, err, handler, flat>>
vars == <<pc, sumVars, extVars>>

----------------------------------------------------------------------------
(* Bounds of the model *)

\* bits of an IPv4 and of an IPv6 address
W4 == 2
W6 == 1
\* records in the list given to summarize_ip_blocks
MaxLen == 3
\* rows of the section, the header included, and records extracted
MaxRows == 3
MaxResults == 3

----------------------------------------------------------------------------
(* Integer helpers *)

RECURSIVE Pow2(_)
Pow2(k) == IF k = 0 THEN 1 ELSE 2 * Pow2(k - 1)

Min(a, b) == IF a <= b THEN a ELSE b

RECURSIVE BitLength(_)
BitLength(x) == IF x = 0 THEN 0 ELSE 1 + BitLength(x \div 2)

Width(ver) == IF ver = 4 THEN W4 ELSE W6

AllOnes(ver) == Pow2(Width(ver)) - 1

----------------------------------------------------------------------------
(* JSON values and strings *)

NoneVal == [kind |-> "none"]
IntVal(i) == [kind |-> "int", num |-> i]
StrVal(pad, text) == [kind |-> "str", pad |-> pad, text |-> text]

EmptyText == [form |-> "empty"]
JunkText == [form |-> "junk"]
LitText(ver, addr) == [form |-> "lit", ver |-> ver, addr |-> addr]
CidrText(ver, addr, plen) == [form |-> "cidr", ver |-> ver, addr |-> addr, plen |-> plen]

Network(ver, addr, plen) == [ver |-> ver, addr |-> addr, plen |-> plen]

\* dict.get(key, default)
DictGet(d, key, default) == IF key \in DOMAIN d THEN d[key] ELSE default

BoolVal(b) == [kind |-> "bool", val |-> b]

\* Python truth value of None, a bool, an int or a str
Truthy(v) ==
    CASE v.kind = "none" -> FALSE
      [] v.kind = "bool" -> v.val
      [] v.kind = "int" -> v.num # 0
      [] v.kind = "str" -> v.pad \/ v.text.form # "empty"

\* str.strip()
Strip(s) == [s EXCEPT !.pad = FALSE]

\* ip_network that accepts host bits and keeps them in the network address
IpNetworkMutNoMask(s) ==
    IF s.pad \/ s.text.form \in {"empty", "junk"} THEN [ok |-> FALSE]
    ELSE IF s.text.form = "lit"
    THEN [ok |-> TRUE, net |-> Network(s.text.ver, s.text.addr, Width(s.text.ver))]
    ELSE IF s.text.plen > Width(s.text.ver) THEN [ok |-> FALSE]
    ELSE [ok |-> TRUE, net |-> Network(s.text.ver, s.text.addr, s.text.plen)]

\* ipaddress.ip_network(address, strict=False) on a string: host bits are cleared
IpNetwork(s) ==
    IF s.pad \/ s.text.form \in {"empty", "junk"} THEN [ok |-> FALSE]
    ELSE IF s.text.form = "lit"
    THEN [ok |-> TRUE, net |-> Network(s.text.ver, s.text.addr, Width(s.text.ver))]
    ELSE IF s.text.plen > Width(s.text.ver) THEN [ok |-> FALSE]
    ELSE LET size == Pow2(Width(s.text.ver) - s.text.plen)
         IN [ok |-> TRUE,
             net |-> Network(s.text.ver, (s.text.addr \div size) * size, s.text.plen)]

\* str(network)
StrOfNet(net) == StrVal(FALSE, CidrText(net.ver, net.addr, net.plen))

----------------------------------------------------------------------------
(* ipaddress.collapse_addresses *)

NetSize(net) == Pow2(Width(net.ver) - net.plen)
Broadcast(net) == net.addr + NetSize(net) - 1

\* _BaseNetwork.supernet()
Supernet(net) ==
    IF net.plen = 0 THEN net
    ELSE LET size == 2 * NetSize(net)
         IN Network(net.ver, (net.addr \div size) * size, net.plen - 1)

\* _BaseNetwork.__lt__: by network address, then by netmask
NetLess(a, b) == a.addr < b.addr \/ (a.addr = b.addr /\ a.plen < b.plen)

\* sorted(...) of a set of networks
RECURSIVE Sorted(_)
Sorted(S) ==
    IF S = {} THEN <<>>
    ELSE LET m == CHOOSE x \in S : \A y \in S \ {x} : NetLess(x, y)
         IN <<m>> \o Sorted(S \ {m})

\* _count_righthand_zero_bits(number, bits)
RECURSIVE TrailingZeros(_)
TrailingZeros(x) == IF x % 2 = 1 THEN 0 ELSE 1 + TrailingZeros(x \div 2)

CountRighthandZeroBits(number, bits) ==
    IF number = 0 THEN bits ELSE Min(bits, TrailingZeros(number))

\* summarize_address_range(first, last)
RECURSIVE SummarizeAddressRange(_, _, _)
SummarizeAddressRange(ver, first, last) ==
    IF first > last THEN <<>>
    ELSE LET nbits == Min(CountRighthandZeroBits(first, Width(ver)),
                          BitLength(last - first + 1) - 1)
             next == first + Pow2(nbits)
         IN <<Network(ver, first, Width(ver) - nbits)>>
            \o (IF next - 1 = AllOnes(ver) THEN <<>>
                ELSE SummarizeAddressRange(ver, next, last))

\* _find_address_range(addresses): the runs of consecutive addresses
RECURSIVE FindAddressRange(_, _, _)
FindAddressRange(ips, first, last) ==
    IF ips = <<>> THEN <<<<first, last>>>>
    ELSE IF Head(ips).addr # last.addr + 1
    THEN <<<<first, last>>>> \o FindAddressRange(Tail(ips), Head(ips), Head(ips))
    ELSE FindAddressRange(Tail(ips), first, Head(ips))

\* the merge loop of _collapse_addresses_internal: to_merge is a stack, subnets a dict
RECURSIVE MergeLoop(_, _)
MergeLoop(to_merge, subnets) ==
    IF to_merge = <<>> THEN subnets
    ELSE LET net == to_merge[Len(to_merge)]
             rest == SubSeq(to_merge, 1, Len(to_merge) - 1)
             supernet == Supernet(net)
         IN IF supernet \notin DOMAIN subnets
            THEN MergeLoop(rest, [k \in DOMAIN subnets \cup {supernet} |->
                                    IF k = supernet THEN net ELSE subnets[k]])
            ELSE IF subnets[supernet] # net
            THEN MergeLoop(Append(rest, supernet),
                           [k \in DOMAIN subnets \ {supernet} |-> subnets[k]])
            ELSE MergeLoop(rest, subnets)

\* the second loop without its test: every merged network is yielded
SkipSubsumedMutKeepAll(nets, last, acc) == acc \o nets

\* the second loop of _collapse_addresses_internal: skip the subsumed networks
RECURSIVE SkipSubsumed(_, _, _)
SkipSubsumed(nets, last, acc) ==
    IF nets = <<>> THEN acc
    ELSE IF last # NoneVal /\ Broadcast(last) >= Broadcast(Head(nets))
    THEN SkipSubsumed(Tail(nets), last, acc)
    ELSE SkipSubsumed(Tail(nets), Head(nets), Append(acc, Head(nets)))

CollapseAddressesInternal(addresses) ==
    LET subnets == MergeLoop(addresses, <<>>)
    IN SkipSubsumed(Sorted({subnets[k] : k \in DOMAIN subnets}), NoneVal, <<>>)

RECURSIVE FlattenRanges(_, _)
FlattenRanges(ver, ranges) ==
    IF ranges = <<>> THEN <<>>
    ELSE SummarizeAddressRange(ver, Head(ranges)[1].addr, Head(ranges)[2].addr)
         \o FlattenRanges(ver, Tail(ranges))

CollapseAddresses(addresses) ==
    LET IsHost(x) == x.plen = Width(x.ver)
        IsNet(x) == x.plen # Width(x.ver)
        ips == Sorted({addresses[i] : i \in {j \in DOMAIN addresses : IsHost(addresses[j])}})
        nets == SelectSeq(addresses, IsNet)
        addrs == IF ips = <<>> THEN <<>>
                 ELSE FlattenRanges(Head(ips).ver,
                                    FindAddressRange(Tail(ips), Head(ips), Head(ips)))
    IN CollapseAddressesInternal(addrs \o nets)

----------------------------------------------------------------------------
(* summarize_ip_blocks *)

NoError == "none"

Locals0 == [ipv4 |-> <<>>, ipv6 |-> <<>>, diag |-> <<>>, err |-> NoError]

\* item.get("ready", True): a record without the flag counts as ready
ItemReadyMutDefaultTrue(item) == DictGet(item, "ready", TRUE)

\* item.get("ready", False)
ItemReady(item) == DictGet(item, "ready", FALSE)

\* an except clause that prints nothing
OnValueErrorMutSilent(s, idx) == s

\* the except ValueError clause: one [WARN] line for the record at position idx
OnValueError(s, idx) == [s EXCEPT !.diag = Append(@, idx)]

\* one iteration of "for item in ip_entries"
ProcessItem(s, idx, item) ==
    IF ~ItemReady(item) THEN s
    ELSE LET raw == DictGet(item, "ip_address", NoneVal)
         IN IF ~Truthy(raw) THEN s
            ELSE IF raw.kind # "str" THEN [s EXCEPT !.err = "AttributeError: 'int' object has no attribute 'strip'"]
            ELSE LET r == IpNetwork(Strip(raw))
                 IN IF ~r.ok THEN OnValueError(s, idx)
                    ELSE IF r.net.ver = 4
                    THEN [s EXCEPT !.ipv4 = Append(@, r.net)]
                    ELSE [s EXCEPT !.ipv6 = Append(@, r.net)]

\* the concatenation the other way round
CombineMutV6First(collapsed_v4, collapsed_v6) == collapsed_v6 \o collapsed_v4

\* collapsed = collapsed_v4 + collapsed_v6
Combine(collapsed_v4, collapsed_v6) == collapsed_v4 \o collapsed_v6

\* the statements after the loop: collapse each family, concatenate, format
Finish(s) ==
    LET collapsed == Combine(CollapseAddresses(s.ipv4), CollapseAddresses(s.ipv6))
    IN [i \in DOMAIN collapsed |-> [ip_address |-> StrOfNet(collapsed[i])]]

RECURSIVE Loop(_, _, _)
Loop(ip_entries, idx, s) ==
    IF idx > Len(ip_entries) \/ s.err # NoError THEN s
    ELSE Loop(ip_entries, idx + 1, ProcessItem(s, idx, ip_entries[idx]))

\* summarize_ip_blocks(ip_entries) as a whole: the exception raised, or the list returned
SummarizeIpBlocks(ip_entries) ==
    LET s == Loop(ip_entries, 1, Locals0)
    IN IF s.err # NoError THEN [err |-> s.err, out |-> <<>>]
       ELSE [err |-> NoError, out |-> Finish(s)]

----------------------------------------------------------------------------
(* Input records of the summarizer *)

Addrs(ver) == 0 .. AllOnes(ver)

Texts(ver) ==
    {LitText(ver, a) : a \in Addrs(ver)}
    \cup {CidrText(ver, a, p) : a \in Addrs(ver), p \in 0 .. Width(ver)}

\* ip_address values of the ready records
ReadyRaws ==
    {StrVal(FALSE, t) : t \in Texts(4) \cup Texts(6)}
    \cup {NoneVal, IntVal(0), IntVal(5),
          StrVal(FALSE, EmptyText), StrVal(TRUE, EmptyText), StrVal(FALSE, JunkText),
          StrVal(FALSE, CidrText(4, 0, W4 + 1)), StrVal(FALSE, CidrText(6, 0, W6 + 1)),
          StrVal(TRUE, CidrText(4, 1, 1)), StrVal(TRUE, LitText(6, 1))}

\* ip_address values of the records that are not ready
NotReadyRaws ==
    {NoneVal, IntVal(5), StrVal(FALSE, JunkText),
     StrVal(FALSE, LitText(4, 1)), StrVal(FALSE, CidrText(4, 0, 1)),
     StrVal(FALSE, LitText(6, 1))}

Items ==
    {[ip_address |-> r, ready |-> TRUE] : r \in ReadyRaws}
    \cup {[ip_address |-> r, ready |-> FALSE] : r \in NotReadyRaws}
    \cup {[ip_address |-> StrVal(FALSE, LitText(4, 0))], [ready |-> TRUE]}

\* what the records denote, read off the strings
IsReadyRecord(item) == "ready" \in DOMAIN item /\ item.ready = TRUE

AddressOf(item) == IF "ip_address" \in DOMAIN item THEN item.ip_address ELSE NoneVal

ValidAddress(raw) ==
    /\ raw.kind = "str"
    /\ raw.text.form \in {"lit", "cidr"}
    /\ raw.text.form = "cidr" => raw.text.plen <= Width(raw.text.ver)

NonEmptyString(raw) == raw.kind = "str" /\ (raw.pad \/ raw.text.form # "empty")

\* the addresses, as <<family, address>> pairs, an address string denotes
TextAddrs(t) ==
    IF t.form = "lit" THEN {<<t.ver, t.addr>>}
    ELSE LET block == Pow2(Width(t.ver) - t.plen)
         IN {<<t.ver, a>> : a \in {b \in Addrs(t.ver) : b \div block = t.addr \div block}}

\* the addresses a canonical block string covers
BlockAddrs(t) ==
    IF t.form = "lit" THEN {<<t.ver, t.addr>>}
    ELSE {<<t.ver, a>> : a \in t.addr .. (t.addr + Pow2(Width(t.ver) - t.plen) - 1)}

Covered(blocks) == UNION {BlockAddrs(blocks[i].ip_address.text) : i \in DOMAIN blocks}

MarkReady(blocks) == [i \in DOMAIN blocks |-> [ip_address |-> blocks[i].ip_address, ready |-> TRUE]]

----------------------------------------------------------------------------
(* The summarizer as a state machine *)

InitSum ==
    /\ pc = "loop"
    /\ st = Locals0
    /\ n = 0
    /\ out = <<>>
    /\ again = <<>>
    /\ againRdy = <<>>
    /\ fst = Locals0
    /\ expected = {}
    /\ dropped = <<>>
    /\ badStr = <<>>
    /\ skipped = {}
    /\ doc = NoneVal
    /\ results = <<>>
    /\ rowIdx = 0
    /\ err = NoneVal
    /\ handler = "none"
    /\ flat = <<>>

\* one iteration of the loop, on the next record of the input
Step(item) ==
    /\ pc = "loop"
    /\ n < MaxLen
    /\ n' = n + 1
    /\ st' = ProcessItem(st, n + 1, item)
    /\ pc' = IF st'.err # NoError THEN "raised" ELSE "loop"
    /\ fst' = IF IsReadyRecord(item) THEN ProcessItem(fst, n + 1, item) ELSE fst
    /\ expected' = IF IsReadyRecord(item) /\ ValidAddress(AddressOf(item))
                   THEN expected \cup TextAddrs(AddressOf(item).text)
                   ELSE expected
    /\ dropped' = IF IsReadyRecord(item) /\ ~ValidAddress(AddressOf(item))
                  THEN Append(dropped, n + 1) ELSE dropped
    /\ badStr' = IF /\ IsReadyRecord(item)
                    /\ NonEmptyString(AddressOf(item))
                    /\ ~ValidAddress(AddressOf(item))
                 THEN Append(badStr, n + 1) ELSE badStr
    /\ skipped' = IF ~IsReadyRecord(item) /\ ValidAddress(AddressOf(item))
                  THEN skipped \cup {AddressOf(item).text} ELSE skipped
    /\ UNCHANGED <<out, again, againRdy, extVars>>

\* the input is exhausted: collapse and return
Return ==
    /\ pc = "loop"
    /\ out' = Finish(st)
    /\ pc' = "done"
    /\ UNCHANGED <<st, n, again, againRdy, fst, expected, dropped, badStr, skipped, extVars>>

\* summarize the returned list again, as it is and with its items marked ready
Resummarize ==
    /\ pc = "done"
    /\ again' = SummarizeIpBlocks(out)
    /\ againRdy' = SummarizeIpBlocks(MarkReady(out))
    /\ pc' = "resummarized"
    /\ UNCHANGED <<st, n, out, fst, expected, dropped, badStr, skipped, extVars>>

NextSum == (\E item \in Items : Step(item)) \/ Return \/ Resummarize

SpecSum == InitSum /\ [][NextSum]_vars

Returned == pc \in {"done", "resummarized"}

----------------------------------------------------------------------------
(* fetch_zscaler_egress_ips: JSON values, and the Python operations on them *)

\* the index of the section read, and the start of the slice of its rows
SectionIndex == 6
SliceStart == 1
\* the id of the note that marks an address as not ready
NotReadyId == 3

ListVal(items) == [kind |-> "list", items |-> items]
DictVal(m) == [kind |-> "dict", m |-> m]
EmptyDict == DictVal(<<>>)
\* a list whose elements the traversal is yet to read
Stream == [kind |-> "list", lazy |-> TRUE]
Word(w) == StrVal(FALSE, [form |-> "word", word |-> w])

Exc(type, what) == [kind |-> "exc", type |-> type, what |-> what]
IsExc(x) == x.kind = "exc"

\* x.get(key, default)
Get(x, key, default) ==
    IF IsExc(x) THEN x
    ELSE IF x.kind # "dict" THEN Exc("AttributeError", "no attribute 'get'")
    ELSE IF key \in DOMAIN x.m THEN x.m[key] ELSE default

\* x[key], key a string
Subscript(x, key) ==
    IF IsExc(x) THEN x
    ELSE IF x.kind # "dict" THEN Exc("TypeError", "not subscriptable by " \o key)
    ELSE IF key \in DOMAIN x.m THEN x.m[key] ELSE Exc("KeyError", key)

\* x[i], i an integer
Index(x, i) ==
    IF IsExc(x) THEN x
    ELSE IF x.kind # "list" THEN Exc("TypeError", "not subscriptable by an index")
    ELSE IF i + 1 > Len(x.items) THEN Exc("IndexError", "list index out of range")
    ELSE x.items[i + 1]

\* x[start:]: of a list being read, the same list entered at index start
Slice(x, start) ==
    IF IsExc(x) THEN x
    ELSE IF x.kind # "list" THEN Exc("TypeError", "not subscriptable by a slice")
    ELSE [list |-> x, from |-> start, kind |-> "slice"]

\* data.get("data", [])[6]["body"]["json"]["rows"][1:]
Entries(data) ==
    Slice(Subscript(Subscript(Subscript(
              Index(Get(data, "data", ListVal(<<>>)), SectionIndex),
              "body"), "json"), "rows"),
          SliceStart)

\* any(note.get("id") == 3 for note in notes), from the i-th note on
RECURSIVE AnyNotReady(_, _)
AnyNotReady(notes, i) ==
    IF i > Len(notes) THEN BoolVal(FALSE)
    ELSE LET id == Get(notes[i], "id", NoneVal)
         IN IF IsExc(id) THEN id
            ELSE IF id = IntVal(NotReadyId) THEN BoolVal(TRUE)
            ELSE AnyNotReady(notes, i + 1)

\* not any(note.get("id") == 3 for note in x.get("notes", []))
NotesReady(x) ==
    LET notes == Get(x, "notes", ListVal(<<>>))
    IN IF IsExc(notes) THEN notes
       ELSE IF notes.kind # "list" THEN Exc("TypeError", "notes is not iterable")
       ELSE LET any == AnyNotReady(notes.items, 1)
            IN IF IsExc(any) THEN any ELSE BoolVal(~any.val)

\* is_ready of a member computed from the notes of the group entry
SubReadyMutWrapperNotes(entry, sub) ==
    IF sub.kind # "dict" THEN NotesReady(sub) ELSE NotesReady(entry)

\* is_ready of a member of a multivip group
SubReady(entry, sub) == NotesReady(sub)

\* the dict appended to results
LeafRecord(x, multivip, is_ready) ==
    [ip_address |-> Get(x, "ip_address", NoneVal),
     region |-> Get(x, "region", NoneVal),
     location |-> Get(x, "location", NoneVal),
     multivip |-> multivip,
     ready |-> is_ready.val]

Raised(exc, line, recs) == [exc |-> exc, line |-> line, recs |-> recs]

\* for sub in entry.get("data", []), from the i-th member on
RECURSIVE SubLoop(_, _, _, _)
SubLoop(entry, subs, i, recs) ==
    IF i > Len(subs) THEN Raised(NoneVal, 0, recs)
    ELSE LET is_ready == SubReady(entry, subs[i])
         IN IF IsExc(is_ready) THEN Raised(is_ready, 75, recs)
            ELSE SubLoop(entry, subs, i + 1,
                         Append(recs, LeafRecord(subs[i], TRUE, is_ready)))

\* the body of "for entry in data_items": the records appended, or the exception
ProcessEntry(entry) ==
    LET multivip == Get(entry, "multivip", NoneVal)
    IN IF IsExc(multivip) THEN Raised(multivip, 73, <<>>)
       ELSE IF Truthy(multivip)
       THEN LET data == Get(entry, "data", ListVal(<<>>))
            IN IF data.kind # "list"
               THEN Raised(Exc("TypeError", "data is not iterable"), 74, <<>>)
               ELSE SubLoop(entry, data.items, 1, <<>>)
       ELSE LET is_ready == NotesReady(entry)
            IN IF IsExc(is_ready) THEN Raised(is_ready, 84, <<>>)
               ELSE Raised(NoneVal, 0, <<LeafRecord(entry, FALSE, is_ready)>>)

\* the except clauses of __main__
IsRequestException(type) == type = "RequestException"

Handler(type) ==
    IF IsRequestException(type) THEN "[ERROR] Failed to fetch data"
    ELSE "[ERROR] Unexpected error"

----------------------------------------------------------------------------
(* Documents *)

Absent == [kind |-> "absent"]

\* the dict d with key k set to v, or without it
With(d, k, v) ==
    IF v = Absent THEN d
    ELSE DictVal([x \in DOMAIN d.m \cup {k} |-> IF x = k THEN v ELSE d.m[x]])

JsonOpts == {NoneVal, EmptyDict} \cup {With(EmptyDict, "rows", r) : r \in {NoneVal, Stream}}
BodyOpts == {NoneVal, EmptyDict} \cup {With(EmptyDict, "json", j) : j \in JsonOpts}
SectionOpts == {NoneVal, EmptyDict} \cup {With(EmptyDict, "body", b) : b \in BodyOpts}
OtherSections == [i \in 1 .. SectionIndex |-> IntVal(0)]
DataOpts ==
    {NoneVal, ListVal(<<>>), ListVal(OtherSections)}
    \cup {ListVal(Append(OtherSections, x)) : x \in SectionOpts}
Docs == {EmptyDict} \cup {With(EmptyDict, "data", d) : d \in DataOpts}

RowOpts == {NoneVal, EmptyDict, With(EmptyDict, "cols", NoneVal), With(EmptyDict, "cols", Stream)}
ColOpts == {NoneVal, EmptyDict, With(EmptyDict, "data", NoneVal), With(EmptyDict, "data", Stream)}

Note(id) == With(EmptyDict, "id", id)
NoteOpts ==
    {Absent, NoneVal, ListVal(<<>>),
     ListVal(<<Note(IntVal(NotReadyId))>>), ListVal(<<Note(IntVal(1))>>),
     ListVal(<<Note(IntVal(1)), Note(IntVal(NotReadyId))>>),
     ListVal(<<Note(IntVal(NotReadyId)), NoneVal>>),
     ListVal(<<NoneVal, Note(IntVal(NotReadyId))>>),
     ListVal(<<With(EmptyDict, "text", Word("n"))>>)}

Full == With(With(With(EmptyDict, "ip_address", Word("a")), "region", Word("r")), "location", Word("l"))
Partial == With(With(EmptyDict, "ip_address", NoneVal), "region", Word("r"))

LeafOpts ==
    {With(f, "notes", x) : f \in {EmptyDict, Full, Partial}, x \in NoteOpts}
    \cup {With(Full, "multivip", v) : v \in {NoneVal, BoolVal(FALSE)}}

SubOpts ==
    {With(Full, "notes", x) :
        x \in {Absent, ListVal(<<Note(IntVal(NotReadyId))>>), ListVal(<<Note(IntVal(1))>>)}}
    \cup {With(EmptyDict, "notes", ListVal(<<Note(IntVal(NotReadyId))>>)),
          With(Partial, "multivip", BoolVal(TRUE)),
          With(Full, "notes", NoneVal),
          NoneVal}

GroupDataOpts ==
    {Absent, NoneVal, ListVal(<<>>)}
    \cup {ListVal(<<x>>) : x \in SubOpts}
    \cup {ListVal(<<x, y>>) : x, y \in SubOpts}

Group(wrapper) == With(wrapper, "multivip", BoolVal(TRUE))

GroupOpts ==
    {With(Group(EmptyDict), "data", d) : d \in GroupDataOpts}
    \cup {With(Group(With(Full, "notes", x)), "data", ListVal(<<y>>)) :
            x \in {NoneVal, ListVal(<<Note(IntVal(NotReadyId))>>)},
            y \in {Full, With(Full, "notes", ListVal(<<Note(IntVal(NotReadyId))>>))}}

EntryOpts == LeafOpts \cup GroupOpts \cup {NoneVal}

\* the flattening of an entry, read off the document
HasNotReadyNote(x) ==
    /\ "notes" \in DOMAIN x.m
    /\ x.m.notes.kind = "list"
    /\ \E i \in DOMAIN x.m.notes.items :
          LET note == x.m.notes.items[i]
          IN note.kind = "dict" /\ "id" \in DOMAIN note.m /\ note.m.id = IntVal(3)

FieldOrNull(x, k) == IF k \in DOMAIN x.m THEN x.m[k] ELSE NoneVal

RecordOf(x, isGroup) ==
    [ip_address |-> FieldOrNull(x, "ip_address"),
     region |-> FieldOrNull(x, "region"),
     location |-> FieldOrNull(x, "location"),
     multivip |-> isGroup,
     ready |-> ~HasNotReadyNote(x)]

IsGroupEntry(e) == "multivip" \in DOMAIN e.m /\ e.m.multivip = BoolVal(TRUE)

FlattenEntry(e) ==
    IF ~IsGroupEntry(e) THEN <<RecordOf(e, FALSE)>>
    ELSE IF "data" \in DOMAIN e.m
    THEN [i \in DOMAIN e.m.data.items |-> RecordOf(e.m.data.items[i], TRUE)]
    ELSE <<>>

----------------------------------------------------------------------------
(* The driver and the traversal as a state machine *)

InitExt ==
    /\ pc = "fetch"
    /\ doc = NoneVal
    /\ results = <<>>
    /\ rowIdx = 0
    /\ err = NoneVal
    /\ handler = "none"
    /\ flat = <<>>
    /\ st = Locals0
    /\ n = 0
    /\ out = <<>>
    /\ again = <<>>
    /\ againRdy = <<>>
    /\ fst = Locals0
    /\ expected = {}
    /\ dropped = <<>>
    /\ badStr = <<>>
    /\ skipped = {}

\* an exception leaves fetch_zscaler_egress_ips: its frame, and the list in it, are gone
Raise(exc, line) ==
    /\ pc' = "raised"
    /\ err' = [type |-> exc.type, what |-> exc.what, line |-> line]
    /\ results' = <<>>
    /\ flat' = <<>>

\* requests.get(url), resp.raise_for_status(): the transport fails
FetchFails ==
    /\ pc = "fetch"
    /\ Raise(Exc("RequestException", "network or HTTP error"), 58)
    /\ UNCHANGED <<doc, rowIdx, handler, sumVars>>

\* resp.json(): a document arrives
FetchOk(data) ==
    /\ pc = "fetch"
    /\ doc' = data
    /\ pc' = "select"
    /\ UNCHANGED <<results, rowIdx, err, handler, flat, sumVars>>

\* entries = data.get("data", [])[6]["body"]["json"]["rows"][1:]; results = []
SelectRows ==
    /\ pc = "select"
    /\ LET entries == Entries(doc)
       IN IF IsExc(entries)
          THEN Raise(entries, 63) /\ UNCHANGED rowIdx
          ELSE pc' = "rows" /\ rowIdx' = entries.from /\ UNCHANGED <<err, results, flat>>
    /\ UNCHANGED <<doc, handler, sumVars>>

\* for region in entries: cols = region.get("cols", [])
NextRow(region) ==
    /\ pc = "rows"
    /\ rowIdx < MaxRows
    /\ rowIdx' = rowIdx + 1
    /\ LET cols == Get(region, "cols", ListVal(<<>>))
       IN IF IsExc(cols) THEN Raise(cols, 68)
          ELSE IF cols.kind # "list"
          THEN Raise(Exc("TypeError", "cols is not iterable"), 69)
          ELSE /\ pc' = IF cols = Stream THEN "cols" ELSE "rows"
               /\ UNCHANGED <<err, results, flat>>
    /\ UNCHANGED <<doc, handler, sumVars>>

\* the rows are exhausted: return results
EndRows ==
    /\ pc = "rows"
    /\ pc' = "extracted"
    /\ UNCHANGED <<doc, results, rowIdx, err, handler, flat, sumVars>>

\* for col in cols: data_items = col.get("data", [])
NextCol(col) ==
    /\ pc = "cols"
    /\ LET data_items == Get(col, "data", ListVal(<<>>))
       IN IF IsExc(data_items) THEN Raise(data_items, 70)
          ELSE IF data_items.kind # "list"
          THEN Raise(Exc("TypeError", "data is not iterable"), 71)
          ELSE /\ pc' = IF data_items = Stream THEN "entries" ELSE "cols"
               /\ UNCHANGED <<err, results, flat>>
    /\ UNCHANGED <<doc, rowIdx, handler, sumVars>>

EndCols ==
    /\ pc = "cols"
    /\ pc' = "rows"
    /\ UNCHANGED <<doc, results, rowIdx, err, handler, flat, sumVars>>

\* for entry in data_items: append the entry's records
NextEntry(entry) ==
    /\ pc = "entries"
    /\ LET r == ProcessEntry(entry)
       IN /\ Len(results) + Len(r.recs) <= MaxResults
          /\ IF r.exc # NoneVal
             THEN Raise(r.exc, r.line)
             ELSE /\ results' = results \o r.recs
                  /\ flat' = IF rowIdx > 1 THEN flat \o FlattenEntry(entry) ELSE flat
                  /\ UNCHANGED <<pc, err>>
    /\ UNCHANGED <<doc, rowIdx, handler, sumVars>>

EndEntries ==
    /\ pc = "entries"
    /\ pc' = "cols"
    /\ UNCHANGED <<doc, results, rowIdx, err, handler, flat, sumVars>>

\* save_as_json(full_ips): the file is written
SaveOk ==
    /\ pc = "extracted"
    /\ pc' = "saved"
    /\ UNCHANGED <<doc, results, rowIdx, err, handler, flat, sumVars>>

\* save_as_json(full_ips): open() fails
SaveFails ==
    /\ pc = "extracted"
    /\ pc' = "raised"
    /\ err' = [type |-> "OSError", what |-> "cannot open the output file", line |-> 151]
    /\ UNCHANGED <<doc, results, rowIdx, handler, flat, sumVars>>

\* except requests.exceptions.RequestException / except Exception
Handle ==
    /\ pc = "raised"
    /\ handler' = Handler(err.type)
    /\ pc' = "handled"
    /\ UNCHANGED <<doc, results, rowIdx, err, flat, sumVars>>

NextExt ==
    \/ FetchFails
    \/ \E data \in Docs : FetchOk(data)
    \/ SelectRows
    \/ \E region \in RowOpts : NextRow(region)
    \/ EndRows
    \/ \E col \in ColOpts : NextCol(col)
    \/ EndCols
    \/ \E entry \in EntryOpts : NextEntry(entry)
    \/ EndEntries
    \/ SaveOk
    \/ SaveFails
    \/ Handle

SpecExt == InitExt /\ [][NextExt]_vars

----------------------------------------------------------------------------
(* Properties of summarize_ip_blocks *)

BlockText(i) == out[i].ip_address.text

OutIndices(ver) == {i \in DOMAIN out : BlockText(i).ver = ver}

\* two blocks are the two halves of one exact parent block
Halves(t, u) ==
    /\ t.ver = u.ver
    /\ t.plen = u.plen
    /\ t.plen > 0
    /\ t.addr # u.addr
    /\ LET parent == 2 * Pow2(Width(t.ver) - t.plen)
       IN t.addr \div parent = u.addr \div parent

\* C1: the addresses covered by the returned blocks are exactly the addresses
\* denoted by the ready records whose address parses (a literal as a singleton,
\* a CIDR with host bits set as its containing network): none gained, none lost.
C1_CoverageExact == Returned => Covered(out) = expected

C1_Witness ==
    /\ pc = "done"
    /\ \E i \in DOMAIN st.ipv4 : st.ipv4[i].plen = W4
    /\ Len(out) >= 1
    /\ Len(out) < Len(st.ipv4) + Len(st.ipv6)

\* C2: within a family no returned block is contained in or equal to another
\* returned block, and no two returned blocks are the halves of one parent.
C2_Minimal ==
    Returned =>
        \A i, j \in DOMAIN out :
            (i # j /\ BlockText(i).ver = BlockText(j).ver) =>
                /\ ~(BlockAddrs(BlockText(i)) \subseteq BlockAddrs(BlockText(j)))
                /\ ~Halves(BlockText(i), BlockText(j))

C2_Witness ==
    /\ pc = "done"
    /\ Len(st.ipv4) = 3
    /\ Cardinality(OutIndices(4)) = 2

\* C3: a not-ready record contributes nothing: the run returns (or raises)
\* exactly what the run on the input without the not-ready records does.
C3_ReadinessFilter ==
    /\ st.err = fst.err
    /\ Returned => out = Finish(fst)

C3_Witness ==
    /\ pc = "done"
    /\ \E t, u \in skipped :
          /\ \E i \in DOMAIN st.ipv4 : st.ipv4[i] = IpNetwork(StrVal(FALSE, t)).net
          /\ TextAddrs(t) \subseteq Covered(out)
          /\ TextAddrs(u) \cap Covered(out) = {}

\* C4: summarize_ip_blocks never raises, whatever the records' addresses are.
C4_NeverRaises == st.err = NoError

\* C5 as stated: summarizing the returned list again returns that same list.
C5_Original ==
    pc = "resummarized" => again = [err |-> NoError, out |-> out]

\* C5 as amended: summarizing the returned blocks, each marked ready, returns
\* the same list; summarizing the returned list as it is returns the empty
\* list, because its items carry no ready flag.
C5_Idempotent ==
    pc = "resummarized" =>
        /\ againRdy = [err |-> NoError, out |-> out]
        /\ again = [err |-> NoError, out |-> <<>>]

C5_Witness ==
    /\ pc = "resummarized"
    /\ OutIndices(4) # {}
    /\ OutIndices(6) # {}
    /\ Len(out) < Len(st.ipv4) + Len(st.ipv6)

C10_FamilyOrder ==
    Returned =>
        /\ \A i, j \in DOMAIN out :
              i < j => \/ BlockText(i).ver = 4 /\ BlockText(j).ver = 6
                       \/ /\ BlockText(i).ver = BlockText(j).ver
                          /\ BlockText(i).addr < BlockText(j).addr
        /\ \A i \in DOMAIN out :
              BlockAddrs(BlockText(i)) \subseteq {a \in expected : a[1] = BlockText(i).ver}

C10_Witness ==
    /\ pc = "done"
    /\ Cardinality(OutIndices(4)) >= 2
    /\ \E i \in OutIndices(4), j \in OutIndices(6) :
          BlockText(i).addr = BlockText(j).addr /\ BlockText(i).addr # 0

----------------------------------------------------------------------------
(* Properties of fetch_zscaler_egress_ips and its caller *)

Extracted == pc \in {"extracted", "saved"}

\* C6: once the section path is present, the traversal never raises because
\* an optional nested field (cols, data, notes, ip_address, region, location,
\* multivip) is absent or malformed.
C6_OptionalFieldsNeverFail ==
    err # NoneVal =>
        err.what \notin {"cols is not iterable", "data is not iterable", "notes is not iterable"}

\* C7: a document without the section path makes the extraction fail with a
\* FeedShapeError of its own, which the caller tells apart from a transport
\* error, and nothing else makes it fail with that error.
C7_FeedShapeError ==
    pc = "handled" =>
        /\ err.line = 63 => /\ err.type = "FeedShapeError"
                            /\ handler # Handler("RequestException")
        /\ err.type = "FeedShapeError" => err.line = 63

\* C8: the list returned is the document-order flattening of the rows after
\* the header row: one record per leaf entry and per member of a group entry,
\* none for the group itself, multivip true exactly for the members, ready a
\* boolean that is false exactly when the entry's own notes hold a note of id 3.
C8_DocumentOrder ==
    Extracted =>
        /\ results = flat
        /\ \A i \in DOMAIN results :
              results[i].ready \in BOOLEAN /\ results[i].multivip \in BOOLEAN

C8_Witness ==
    /\ pc = "extracted"
    /\ rowIdx = 3
    /\ Len(results) = 3
    /\ results[1].multivip /\ ~results[1].ready
    /\ results[2].multivip /\ results[2].ready
    /\ ~results[3].multivip /\ ~results[3].ready
    /\ results[3].ip_address = NoneVal

=============================================================================
